---- MODULE Spec2Model ----
(***************************************************************************)
(* A model of the OPO GenAI chat front end:                                *)
(*   - App.tsx: the selection, the registry view (organizedChats) and the  *)
(*     mutation handlers, each an asynchronous flow that awaits a backend  *)
(*     call and then reloads the registry with loadChats;                  *)
(*   - the backend behind lib/api.ts, which is not part of the front end   *)
(*     sources and is modelled from the specification (sections 3, 4.4, 6);*)
(*   - components/ChatInterface.tsx: the transcript of the selected        *)
(*     session, the history load and the send (generate) life cycle;       *)
(*   - components/ChatMessage.tsx: the citation linker, which turns the    *)
(*     markers [n] of an AI message into buttons, and the click on one.    *)
(* Text is a sequence of tokens, each a string that the linker's regular   *)
(* expressions match as a whole or not at all: prose, a marker "[n]", and  *)
(* the linker's two placeholder forms "<CITATION_n>" and "[CITATIONn]".    *)
(***************************************************************************)
EXTENDS Integers, Sequences, FiniteSets, Bags, TLC

(* ---------------- bounds ---------------- *)
MaxChats == 2
MaxProjects == 1
MaxFlows == 2
MaxIntents == 3
MaxCalls == 2
MaxSends == 2
MaxLen == 3
MaxNum == 3
MaxDoc == 3
MaxSpans == 2
MaxExchanges == 2
MaxPassages == 2
MaxBuckets == 2
MaxStamp == 2
MaxListed == 2
MaxClock == 2
MaxLoaded == 2
MaxIds == 4

(* ---------------- basic values ---------------- *)
Null == 0
ChatIds == 1..MaxChats
ProjectIds == 1..MaxProjects
DefaultName == "New Chat"
NewNames == {"renamed"}

VARIABLES
  selectedChat,    \* App: useState<string | null>(null)
  organizedChats,  \* App: the registry view
  loading,         \* App: the sidebar's loading flag
  flows,           \* App: the asynchronous handler invocations in flight
  issued,          \* the number of mutation intents the user has issued so far
  bChats,          \* backend: session metadata by session id
  bProjects,       \* backend: project status by project id
  messages,        \* ChatInterface: the displayed transcript
  query,           \* ChatInterface: the text of the query input
  thinking,        \* ChatInterface: a send is awaiting its response
  chatLoading,     \* ChatInterface: its own loading flag (history load)
  calls,           \* ChatInterface: loadChatHistory / handleSend invocations in flight
  sent,            \* the number of queries the user has sent so far
  bHistory,        \* backend: the stored history of every session
  message,         \* ChatMessage: the message it is given to render
  stage,           \* ChatMessage: "props" before it has rendered, then "rendered"
  rendered,        \* ChatMessage: the inner HTML of the rendered content
  formatted,       \* the earlier ChatMessage: the inner HTML formatContent gives
  clicked,         \* ChatMessage: the position of the button clicked last, or 0
  viewed,          \* ChatMessage: the citation last handed to onViewSource
  selectedSource,  \* ChatInterface: the citation of the source pane, or NoCitation
  selectedPassages,\* ChatInterface: the passages listed in the source pane
  showPdfViewer,   \* ChatInterface: the source pane is open
  shownFor,        \* the message (position) and citation key clicked last
  documentText,    \* highlighter: the text of the document
  spans,           \* highlighter: the spans to mark, in the order given
  marked,          \* highlighter: the marked document
  hstage,          \* highlighter: "input" before highlight has run, then "marked"
  request,         \* api client: the call (endpoint and the HTTP response to come)
  outcome,         \* api client: "pending", then "value" or "rejected"
  projectEntries,  \* ChatSidebar: Object.entries(organizedChats.projects), as given
  sortedProjects,  \* ChatSidebar: the project buckets in the order they are listed
  sbstage,         \* ChatSidebar: "props" before it has rendered, then "rendered"
  clock,           \* message ids: what Date.now() gives, in milliseconds
  msgIds,          \* message ids: the ids of the messages of the transcript, in order
  awaiting,        \* message ids: a send awaits its response (thinking)
  found,           \* message ids: the position clicked and the position find gave
  chatName,        \* ChatInterface: the chat name shown in the header
  isRenaming,      \* ChatInterface: the header shows the rename input
  newChatName,     \* ChatInterface: the text of the rename input
  hLoads,          \* chat name: the loadChatHistory invocations in flight
  pressed          \* query input: the query and the session of the last handleSend call

backendVars == <<bChats, bProjects>>
registryVars == <<organizedChats, loading, flows, issued>>
chatVars == <<messages, query, thinking, chatLoading, calls, sent, bHistory>>
linkVars == <<message, stage, rendered, formatted, clicked, viewed>>
viewerVars == <<selectedSource, selectedPassages, showPdfViewer, shownFor>>
highlightVars == <<documentText, spans, marked, hstage>>
apiVars == <<request, outcome>>
sidebarVars == <<projectEntries, sortedProjects, sbstage>>
idVars == <<clock, msgIds, awaiting, found>>
headerVars == <<chatName, isRenaming, newChatName, hLoads>>
restVars == <<sidebarVars, idVars, headerVars, pressed>>
paneVars == <<viewerVars, highlightVars, apiVars, restVars>>
vars == <<selectedChat, organizedChats, loading, flows, issued, bChats, bProjects,
          messages, query, thinking, chatLoading, calls, sent, bHistory,
          message, stage, rendered, formatted, clicked, viewed,
          selectedSource, selectedPassages, showPdfViewer, shownFor,
          documentText, spans, marked, hstage, request, outcome,
          projectEntries, sortedProjects, sbstage, clock, msgIds, awaiting, found,
          chatName, isRenaming, newChatName, hLoads, pressed>>

(* ---------------- sequences ---------------- *)
\* the members of a set of numbers, in ascending order
Ascending(S) ==
  CHOOSE s \in [1..Cardinality(S) -> S] :
    \A i, j \in 1..Cardinality(S) : i < j => s[i] < s[j]

(* ---------------- the registry view ---------------- *)
EmptyView == [favorites |-> <<>>, projects |-> <<>>, no_project |-> <<>>]

NoChat == [status |-> "none", name |-> "", project_id |-> Null, is_favorite |-> FALSE]
GoneChat == [status |-> "deleted", name |-> "", project_id |-> Null, is_favorite |-> FALSE]

Live(chats) == {c \in ChatIds : chats[c].status = "live"}
LiveProjects(projects) == {p \in ProjectIds : projects[p] = "live"}

ChatOf(chats, c) ==
  [session_id |-> c, name |-> chats[c].name,
   project_id |-> chats[c].project_id, is_favorite |-> chats[c].is_favorite]

Bucket(chats, S) ==
  LET ids == Ascending(S) IN [i \in 1..Len(ids) |-> ChatOf(chats, ids[i])]

\* backend: listSessions() is organize(flatChats, projects)
Organize(chats, projects) ==
  [favorites |-> Bucket(chats, {c \in Live(chats) : chats[c].is_favorite}),
   projects |-> [p \in LiveProjects(projects) |->
                   [project |-> [id |-> p, created_at |-> p],
                    chats |-> Bucket(chats, {c \in Live(chats) : chats[c].project_id = p})]],
   no_project |-> Bucket(chats, {c \in Live(chats) : chats[c].project_id = Null})]

Ids(bucket) == {bucket[i].session_id : i \in 1..Len(bucket)}
ViewProjects(view) == DOMAIN view.projects
InProject(view, p) == Ids(view.projects[p].chats)
InAnyProject(view) == UNION {InProject(view, p) : p \in ViewProjects(view)}
Listed(view) == Ids(view.favorites) \cup InAnyProject(view) \cup Ids(view.no_project)

(* ---------------- backend operations (lib/api.ts endpoints) ---------------- *)
FreshChat == IF \E c \in ChatIds : bChats[c].status = "none"
             THEN CHOOSE c \in ChatIds : bChats[c].status = "none"
                                         /\ \A d \in ChatIds : d < c => bChats[d].status # "none"
             ELSE Null
FreshProject == IF \E p \in ProjectIds : bProjects[p] = "none"
                THEN CHOOSE p \in ProjectIds : bProjects[p] = "none"
                                         /\ \A q \in ProjectIds : q < p => bProjects[q] # "none"
                ELSE Null

\* whether the backend accepts the call of flow f in its current state
Accepts(f) ==
  CASE f.kind = "newProject"     -> FreshProject # Null
    [] f.kind = "newChat"        -> FreshChat # Null
                                    /\ (f.projectId = Null \/ f.projectId \in LiveProjects(bProjects))
    [] f.kind = "toggleFavorite" -> f.chatId \in Live(bChats)
    [] f.kind = "renameChat"     -> f.chatId \in Live(bChats)
    [] f.kind = "moveToProject"  -> f.chatId \in Live(bChats)
                                    /\ (f.projectId = Null \/ f.projectId \in LiveProjects(bProjects))
    [] f.kind = "deleteChat"     -> f.chatId \in Live(bChats)
    [] f.kind = "deleteProject"  -> f.projectId \in LiveProjects(bProjects)
    [] OTHER                     -> FALSE

\* the session metadata after the backend has performed the call of flow f
ChatsAfter(f) ==
  CASE f.kind = "newChat" ->
         [bChats EXCEPT ![FreshChat] =
            [status |-> "live", name |-> DefaultName,
             project_id |-> f.projectId, is_favorite |-> FALSE]]
    [] f.kind = "toggleFavorite" ->
         [bChats EXCEPT ![f.chatId].is_favorite = ~bChats[f.chatId].is_favorite]
    [] f.kind = "renameChat" ->
         [bChats EXCEPT ![f.chatId].name = f.newName]
    [] f.kind = "moveToProject" ->
         [bChats EXCEPT ![f.chatId].project_id = f.projectId]
    [] f.kind = "deleteChat" ->
         [bChats EXCEPT ![f.chatId] = GoneChat]
    [] f.kind = "deleteProject" ->
         [c \in ChatIds |->
            IF bChats[c].project_id = f.projectId
            THEN [bChats[c] EXCEPT !.project_id = Null]
            ELSE bChats[c]]
    [] OTHER -> bChats

ProjectsAfter(f) ==
  CASE f.kind = "newProject"    -> [bProjects EXCEPT ![FreshProject] = "live"]
    [] f.kind = "deleteProject" -> [bProjects EXCEPT ![f.projectId] = "deleted"]
    [] OTHER                    -> bProjects

(* ---------------- App.tsx: flows ---------------- *)
\* one invocation of an async handler; pc is the await it is suspended at:
\*   "call"       the mutation request is on its way to the backend
\*   "reply"      the mutation response is on its way back
\*   "list"       loadChats: the listChats request is on its way
\*   "listReply"  loadChats: the listChats response is on its way back
\* sel is the selectedChat the handler's closure captured when it was invoked
\* (kept for handleDeleteChat, the one handler that reads it after an await).
\* alone is bookkeeping for the properties, not program state: the intent was
\* issued on an up-to-date view with no other flow in flight, and no intent
\* has been issued since.
\* The flows in flight are a bag: two invocations may be in the same state.
Flow(kind, chatId, projectId, newName, pc, sel, alone) ==
  [kind |-> kind, chatId |-> chatId, projectId |-> projectId, newName |-> newName,
   pc |-> pc, sel |-> sel, ok |-> TRUE, session_id |-> Null, chats |-> EmptyView,
   alone |-> alone]

Replace(f, g) == (flows (-) SetToBag({f})) (+) SetToBag({g})
Drop(f) == flows (-) SetToBag({f})
InFlight == BagToSet(flows)
\* the flows in flight once another intent is issued: none is alone any more
Joined ==
  LET S == {[f EXCEPT !.alone = FALSE] : f \in InFlight}
  IN  [g \in S |-> CopiesIn(g, flows) + CopiesIn([g EXCEPT !.alone = TRUE], flows)]

Start(kind, chatId, projectId, newName) ==
  /\ BagCardinality(flows) < MaxFlows
  /\ issued < MaxIntents
  /\ issued' = issued + 1
  /\ flows' = Joined (+) SetToBag({Flow(kind, chatId, projectId, newName, "call",
                         IF kind = "deleteChat" THEN selectedChat ELSE Null,
                         flows = EmptyBag
                           /\ organizedChats = Organize(bChats, bProjects))})
  /\ UNCHANGED <<selectedChat, organizedChats, loading, backendVars, chatVars, linkVars, paneVars>>

\* ChatInterface as constructed: nothing selected, nothing typed, nothing in flight
InitChat ==
  /\ messages = <<>>
  /\ query = <<>>
  /\ thinking = FALSE
  /\ chatLoading = FALSE
  /\ calls = EmptyBag
  /\ sent = 0
  /\ bHistory = [s \in ChatIds |-> <<>>]

NoMessage == [type |-> "none", content |-> <<>>, citations |-> <<>>]
NoCitation == [id |-> Null]

\* no ChatMessage is mounted
InitLink ==
  /\ message = NoMessage
  /\ stage = "none"
  /\ rendered = <<>>
  /\ formatted = <<>>
  /\ clicked = 0
  /\ viewed = NoCitation

\* the source pane is closed, no document is being marked and no call of the
\* api client is under observation
InitViewer ==
  /\ selectedSource = NoCitation
  /\ selectedPassages = <<>>
  /\ showPdfViewer = FALSE
  /\ shownFor = <<>>

NoSpans == <<>>
NoRequest == [endpoint |-> "none"]

\* no sidebar is under observation
InitSidebarIdle ==
  /\ projectEntries = <<>>
  /\ sortedProjects = <<>>
  /\ sbstage = "none"

\* no transcript is under observation for its message ids
InitIdsIdle ==
  /\ clock = 0
  /\ msgIds = <<>>
  /\ awaiting = FALSE
  /\ found = <<>>

\* useState('New Chat'): the header's name before any history has named it
HeaderDefault == <<"N", "e", "w", " ", "C", "h", "a", "t">>

\* no header is under observation for its chat name
InitHeaderIdle ==
  /\ chatName = HeaderDefault
  /\ isRenaming = FALSE
  /\ newChatName = <<>>
  /\ hLoads = EmptyBag

\* handleSend has not been called
InitSendIdle == pressed = <<>>

InitRest == InitSidebarIdle /\ InitIdsIdle /\ InitHeaderIdle /\ InitSendIdle

\* the source pane, the highlighter and the api client at rest
InitPanes ==
  /\ InitViewer
  /\ documentText = <<>>
  /\ spans = NoSpans
  /\ marked = <<>>
  /\ hstage = "none"
  /\ request = NoRequest
  /\ outcome = "none"

InitPane ==
  /\ InitPanes
  /\ InitRest

\* App as constructed: the mount effect has called loadChats
Init ==
  /\ selectedChat = Null
  /\ organizedChats = EmptyView
  /\ loading = TRUE
  /\ flows = SetToBag({Flow("mount", Null, Null, "", "list", Null, FALSE)})
  /\ issued = 0
  /\ bChats = [c \in ChatIds |-> NoChat]
  /\ bProjects = [p \in ProjectIds |-> "none"]
  /\ InitChat
  /\ InitLink
  /\ InitPane

(* ---------------- App.tsx: user intents ---------------- *)
SelectChat(c) ==
  /\ c \in Listed(organizedChats)
  /\ selectedChat' = c
  /\ UNCHANGED <<organizedChats, loading, flows, issued, backendVars, chatVars, linkVars, paneVars>>

HandleNewProject == Start("newProject", Null, Null, "")

HandleNewChat(p) ==
  /\ p = Null \/ p \in ViewProjects(organizedChats)
  /\ Start("newChat", Null, p, "")

HandleToggleFavorite(c) ==
  /\ c \in Listed(organizedChats) \/ (c = selectedChat /\ c # Null)
  /\ Start("toggleFavorite", c, Null, "")

HandleDeleteProject(p) ==
  /\ p \in ViewProjects(organizedChats)
  /\ Start("deleteProject", Null, p, "")

HandleRenameChat(c, n) ==
  /\ c = selectedChat /\ c # Null
  /\ Start("renameChat", c, Null, n)

\* the sidebar offers the move from a project bucket (to another project, or to
\* none) and from the unfiled bucket (to a project)
HandleMoveToProject(c, p) ==
  /\ \/ /\ \E q \in ViewProjects(organizedChats) :
             c \in InProject(organizedChats, q) /\ p # q
        /\ p = Null \/ p \in ViewProjects(organizedChats)
     \/ /\ c \in Ids(organizedChats.no_project)
        /\ p \in ViewProjects(organizedChats)
  /\ Start("moveToProject", c, p, "")

HandleDeleteChat(c) ==
  /\ c \in Listed(organizedChats)
  /\ Start("deleteChat", c, Null, "")

(* ---------------- the network and the backend ---------------- *)
\* the backend serves the mutation call of flow i, or the call fails
Serve(f) ==
  /\ f.pc = "call"
  /\ \/ /\ Accepts(f)
        /\ bChats' = ChatsAfter(f)
        /\ bProjects' = ProjectsAfter(f)
        /\ flows' = Replace(f, [f EXCEPT !.pc = "reply", !.ok = TRUE,
                                         !.session_id =
                                            IF f.kind = "newChat" THEN FreshChat ELSE Null])
     \/ /\ flows' = Replace(f, [f EXCEPT !.pc = "reply", !.ok = FALSE])
        /\ UNCHANGED backendVars
  /\ UNCHANGED <<selectedChat, organizedChats, loading, issued, chatVars, linkVars, paneVars>>

\* the backend serves the listChats call of flow i, or the call fails
ServeList(f) ==
  /\ f.pc = "list"
  /\ \/ flows' = Replace(f, [f EXCEPT !.pc = "listReply", !.ok = TRUE,
                                       !.chats = Organize(bChats, bProjects)])
     \/ flows' = Replace(f, [f EXCEPT !.pc = "listReply", !.ok = FALSE])
  /\ UNCHANGED <<selectedChat, organizedChats, loading, issued, backendVars, chatVars, linkVars, paneVars>>

(* ---------------- App.tsx: continuations ---------------- *)
\* (mutant) moving a chat to a project clears the selection
SelectionAfterMove(f) ==
  CASE f.kind = "newChat" -> f.session_id
    [] f.kind = "deleteChat" -> IF f.sel = f.chatId THEN Null ELSE selectedChat
    [] f.kind = "moveToProject" -> Null
    [] OTHER -> selectedChat

\* the selection after the mutation of flow f has succeeded
SelectionAfter(f) ==
  CASE f.kind = "newChat" -> f.session_id
    [] f.kind = "deleteChat" -> IF f.sel = f.chatId THEN Null ELSE selectedChat
    [] OTHER -> selectedChat

\* (mutant) the handler ends after its mutation call without calling loadChats
SettleWithoutReload(f) ==
  /\ f.pc = "reply"
  /\ selectedChat' = IF f.ok THEN SelectionAfter(f) ELSE selectedChat
  /\ flows' = Drop(f)
  /\ UNCHANGED <<organizedChats, loading, issued, backendVars, chatVars, linkVars, paneVars>>

\* (mutant) the handler calls loadChats after its try block, also when the
\* mutation call was rejected
SettleReloadAlways(f) ==
  /\ f.pc = "reply"
  /\ selectedChat' = IF f.ok THEN SelectionAfter(f) ELSE selectedChat
  /\ loading' = TRUE
  /\ flows' = Replace(f, [f EXCEPT !.pc = "list"])
  /\ UNCHANGED <<organizedChats, issued, backendVars, chatVars, linkVars, paneVars>>

\* the mutation call of flow i settles: on success the handler goes on to
\* loadChats (setLoading(true), listChats requested), on failure it ends
Settle(f) ==
  /\ f.pc = "reply"
  /\ IF f.ok
     THEN /\ selectedChat' = SelectionAfter(f)
          /\ loading' = TRUE
          /\ flows' = Replace(f, [f EXCEPT !.pc = "list"])
     ELSE /\ flows' = Drop(f)
          /\ UNCHANGED <<selectedChat, loading>>
  /\ UNCHANGED <<organizedChats, issued, backendVars, chatVars, linkVars, paneVars>>

\* (mutant) loadChats replaces the favorites bucket only
LoadChatsSettleFavorites(f) ==
  /\ f.pc = "listReply"
  /\ organizedChats' = IF f.ok
                       THEN [organizedChats EXCEPT !.favorites = f.chats.favorites]
                       ELSE organizedChats
  /\ loading' = FALSE
  /\ flows' = Drop(f)
  /\ UNCHANGED <<selectedChat, issued, backendVars, chatVars, linkVars, paneVars>>

\* (mutant) loadChats replaces the project buckets and the unfiled bucket and
\* keeps the favorites it has
LoadChatsSettleKeepFavorites(f) ==
  /\ f.pc = "listReply"
  /\ organizedChats' = IF f.ok
                       THEN [f.chats EXCEPT !.favorites = organizedChats.favorites]
                       ELSE organizedChats
  /\ loading' = FALSE
  /\ flows' = Drop(f)
  /\ UNCHANGED <<selectedChat, issued, backendVars, chatVars, linkVars, paneVars>>

\* (mutant) after deleteProject the view is edited locally: the bucket of the
\* project is dropped and nothing is reloaded from the response
LoadChatsSettleLocal(f) ==
  /\ f.pc = "listReply"
  /\ organizedChats' =
       IF ~f.ok THEN organizedChats
       ELSE IF f.kind = "deleteProject"
            THEN [organizedChats EXCEPT !.projects =
                    [q \in DOMAIN organizedChats.projects \ {f.projectId} |->
                       organizedChats.projects[q]]]
            ELSE f.chats
  /\ loading' = FALSE
  /\ flows' = Drop(f)
  /\ UNCHANGED <<selectedChat, issued, backendVars, chatVars, linkVars, paneVars>>

\* loadChats: the listChats call settles
LoadChatsSettle(f) ==
  /\ f.pc = "listReply"
  /\ organizedChats' = IF f.ok THEN f.chats ELSE organizedChats
  /\ loading' = FALSE
  /\ flows' = Drop(f)
  /\ UNCHANGED <<selectedChat, issued, backendVars, chatVars, linkVars, paneVars>>

Next ==
  \/ \E c \in ChatIds : SelectChat(c)
  \/ HandleNewProject
  \/ \E p \in ProjectIds \cup {Null} : HandleNewChat(p)
  \/ \E c \in ChatIds : HandleToggleFavorite(c)
  \/ \E p \in ProjectIds : HandleDeleteProject(p)
  \/ \E c \in ChatIds, n \in NewNames : HandleRenameChat(c, n)
  \/ \E c \in ChatIds, p \in ProjectIds \cup {Null} : HandleMoveToProject(c, p)
  \/ \E c \in ChatIds : HandleDeleteChat(c)
  \/ \E f \in InFlight : Serve(f)
  \/ \E f \in InFlight : ServeList(f)
  \/ \E f \in InFlight : Settle(f)
  \/ \E f \in InFlight : LoadChatsSettle(f)

Spec == Init /\ [][Next]_vars

\* the registry when no backend call fails: every request in flight succeeds
AllOk == \A f \in InFlight : f.ok
NextReliable == Next /\ AllOk'
SpecReliable == Init /\ [][NextReliable]_vars

(***************************************************************************)
(* components/ChatInterface.tsx                                            *)
(***************************************************************************)
\* text is a sequence of tokens; a query is a sequence of characters
\* the queries the user may type: empty, blank, and a question
Queries == {<<>>, <<" ">>, <<"q">>}

RECURSIVE TrimStart(_)
TrimStart(s) == IF s # <<>> /\ Head(s) = " " THEN TrimStart(Tail(s)) ELSE s
RECURSIVE TrimEnd(_)
TrimEnd(s) == IF s # <<>> /\ s[Len(s)] = " " THEN TrimEnd(SubSeq(s, 1, Len(s) - 1)) ELSE s
\* String.prototype.trim
Trim(s) == TrimEnd(TrimStart(s))

Apology == <<"Sorry, I encountered an error while generating a response. Please try again.">>

\* what the backend may answer to a query: the answer text and the citation
\* table, a map from citation number to source; the model keeps its key set
\* and the passages mapping, from citation number to the excerpts backing it
GenerateReplies ==
  {[answer |-> <<"Answer ", "[1]">>, citations |-> {1},
    highlighted_passages |-> [present |-> TRUE, entries |-> [k \in {1} |-> <<"excerpt">>]]]}

\* a message without passages mapping (highlighted_passages is undefined)
NoPassages == [present |-> FALSE, entries |-> <<>>]

\* Object.entries(table).forEach(push {id: num, ...}): the entries of a table
\* with integer keys come in ascending key order
ConvertCitations(table) ==
  LET keys == Ascending(table) IN [i \in 1..Len(keys) |-> [id |-> keys[i]]]

\* the id handleSend gives a message: a clock reading, Date.now().toString()
\* (the answer and the apology get the reading plus 1)
ClockId(t) == [of |-> "clock", session |-> Null, n |-> t]
\* the id loadChatHistory gives the message at index i: `${selectedChat}-${index}`,
\* with the selectedChat of the closure that built the message
LoadedId(s, i) == [of |-> "history", session |-> s, n |-> i]

\* loadChatHistory: the UI message for the message at index of the wire format
UiMessage(msg, session, index) ==
  [type |-> IF msg.type = "user" THEN "user" ELSE "ai",
   id |-> LoadedId(session, index),
   content |-> msg.content,
   citations |-> ConvertCitations(msg.citations),
   highlighted_passages |-> msg.highlighted_passages]

UiMessages(history, session) ==
  [i \in 1..Len(history) |-> UiMessage(history[i], session, i - 1)]

\* one invocation of loadChatHistory or handleSend, suspended at its await:
\*   "call"   the request is on its way to the backend
\*   "reply"  the response is on its way back
\* session is the selectedChat its closure captured, userMessage the message
\* handleSend built before the await; len0 is bookkeeping for the properties,
\* not program state: the length of the transcript when handleSend was invoked
Call(kind, session, userMessage, len0) ==
  [kind |-> kind, session |-> session, userMessage |-> userMessage, len0 |-> len0,
   pc |-> "call", ok |-> TRUE, history |-> <<>>, answer |-> <<>>, citations |-> {},
   highlighted_passages |-> NoPassages]

Calling == BagToSet(calls)
PutCall(f) == calls (+) SetToBag({f})
ReplaceCall(f, g) == (calls (-) SetToBag({f})) (+) SetToBag({g})
DropCall(f) == calls (-) SetToBag({f})

\* (mutant) the query input stays enabled while thinking
InputEnabledAlways == TRUE
\* the query input is disabled while thinking (disabled={thinking})
InputEnabled == ~thinking
\* the send button: disabled={!query.trim() || thinking}
SendButtonEnabled == Trim(query) # <<>> /\ ~thinking

\* App passes a new selectedChat: the effect on [selectedChat] runs
\* loadChatHistory, which sets loading and requests the history
ChatSelect(s) ==
  /\ s # selectedChat
  /\ BagCardinality(calls) < MaxCalls
  /\ selectedChat' = s
  /\ chatLoading' = TRUE
  /\ calls' = PutCall(Call("history", s, NoMessage, 0))
  /\ UNCHANGED <<messages, query, thinking, sent, bHistory, registryVars, backendVars, linkVars, paneVars>>

\* App clears the selection: the effect does nothing for null
ChatDeselect ==
  /\ selectedChat # Null
  /\ selectedChat' = Null
  /\ UNCHANGED <<chatVars, registryVars, backendVars, linkVars, paneVars>>

\* the user edits the query input
TypeQuery(q) ==
  /\ selectedChat # Null
  /\ InputEnabled
  /\ q # query
  /\ query' = q
  /\ UNCHANGED <<selectedChat, messages, thinking, chatLoading, calls, sent, bHistory,
                 registryVars, backendVars, linkVars, paneVars>>

\* (mutant) handleSend leaves the text in the query input
HandleSendKeepsQuery ==
  /\ selectedChat # Null
  /\ SendButtonEnabled \/ InputEnabled
  /\ Trim(query) # <<>>
  /\ sent < MaxSends
  /\ BagCardinality(calls) < MaxCalls
  /\ LET userMessage == [type |-> "user", id |-> ClockId(clock),
                         content |-> query, citations |-> <<>>,
                         highlighted_passages |-> NoPassages] IN
       /\ messages' = Append(messages, userMessage)
       /\ calls' = PutCall(Call("generate", selectedChat, userMessage, Len(messages)))
  /\ thinking' = TRUE
  /\ sent' = sent + 1
  /\ UNCHANGED <<query, selectedChat, chatLoading, bHistory, registryVars, backendVars,
                 linkVars, paneVars>>

\* handleSend, from the send button or from Enter in the query input, up to
\* its await: append the optimistic user message, clear the input, set thinking
HandleSend ==
  /\ selectedChat # Null
  /\ SendButtonEnabled \/ InputEnabled
  /\ Trim(query) # <<>>
  /\ sent < MaxSends
  /\ BagCardinality(calls) < MaxCalls
  /\ LET userMessage == [type |-> "user", id |-> ClockId(clock),
                         content |-> query, citations |-> <<>>,
                         highlighted_passages |-> NoPassages] IN
       /\ messages' = Append(messages, userMessage)
       /\ calls' = PutCall(Call("generate", selectedChat, userMessage, Len(messages)))
  /\ query' = <<>>
  /\ thinking' = TRUE
  /\ sent' = sent + 1
  /\ UNCHANGED <<selectedChat, chatLoading, bHistory, registryVars, backendVars, linkVars, paneVars>>

\* the backend serves getChatHistory, or the call fails
ServeHistory(f) ==
  /\ f.kind = "history" /\ f.pc = "call"
  /\ \/ calls' = ReplaceCall(f, [f EXCEPT !.pc = "reply", !.ok = TRUE,
                                         !.history = bHistory[f.session]])
     \/ calls' = ReplaceCall(f, [f EXCEPT !.pc = "reply", !.ok = FALSE])
  /\ UNCHANGED <<selectedChat, messages, query, thinking, chatLoading, sent, bHistory,
                 registryVars, backendVars, linkVars, paneVars>>

\* the backend serves generate: it answers and stores the exchange, or the
\* call fails
ServeGenerate(f) ==
  /\ f.kind = "generate" /\ f.pc = "call"
  /\ \/ \E r \in GenerateReplies :
          /\ calls' = ReplaceCall(f, [f EXCEPT !.pc = "reply", !.ok = TRUE,
                                               !.answer = r.answer,
                                               !.citations = r.citations,
                                               !.highlighted_passages =
                                                  r.highlighted_passages])
          /\ bHistory' = [bHistory EXCEPT ![f.session] =
                            @ \o <<[type |-> "user", content |-> f.userMessage.content,
                                    citations |-> {},
                                    highlighted_passages |-> NoPassages],
                                   [type |-> "ai", content |-> r.answer,
                                    citations |-> r.citations,
                                    highlighted_passages |-> r.highlighted_passages]>>]
     \/ /\ calls' = ReplaceCall(f, [f EXCEPT !.pc = "reply", !.ok = FALSE])
        /\ UNCHANGED bHistory
  /\ UNCHANGED <<selectedChat, messages, query, thinking, chatLoading, sent,
                 registryVars, backendVars, linkVars, paneVars>>

\* content.slice(0, 50) and content.length > 50
NameCut == 50
Ellipsis == <<".", ".", ".">>


\* String.prototype.slice(0, n)
SliceTo(text, n) == SubSeq(text, 1, IF Len(text) < n THEN Len(text) ELSE n)

\* content.slice(0, 50) + (content.length > 50 ? '...' : '')
CutName(content) ==
  SliceTo(content, NameCut) \o (IF Len(content) > NameCut THEN Ellipsis ELSE <<>>)

\* uiMessages.find(m => m.type === 'user'): its position, or 0 for undefined
FirstUserMessage(uiMessages) ==
  IF \E i \in 1..Len(uiMessages) : uiMessages[i].type = "user"
  THEN CHOOSE i \in 1..Len(uiMessages) :
         /\ uiMessages[i].type = "user"
         /\ \A j \in 1..(i - 1) : uiMessages[j].type # "user"
  ELSE 0

\* the chat name after loadChatHistory has loaded uiMessages:
\* if (firstUserMessage) { setChatName(...) }, and nothing otherwise
NameAfterLoad(name, uiMessages) ==
  IF FirstUserMessage(uiMessages) # 0
  THEN CutName(uiMessages[FirstUserMessage(uiMessages)].content)
  ELSE name

\* loadChatHistory after its await: replace the transcript and name the chat
\* after its first user message, end loading
SettleHistory(f) ==
  /\ f.kind = "history" /\ f.pc = "reply"
  /\ IF f.ok
     THEN LET uiMessages == UiMessages(f.history, f.session) IN
            /\ messages' = uiMessages
            /\ chatName' = NameAfterLoad(chatName, uiMessages)
     ELSE UNCHANGED <<messages, chatName>>
  /\ chatLoading' = FALSE
  /\ calls' = DropCall(f)
  /\ UNCHANGED <<selectedChat, query, thinking, sent, bHistory, registryVars, backendVars,
                 linkVars, viewerVars, highlightVars, apiVars, sidebarVars, idVars,
                 isRenaming, newChatName, hLoads, pressed>>

\* the message handleSend appends once generate has settled
SettledMessage(f) ==
  IF f.ok
  THEN [type |-> "ai", id |-> ClockId(clock + 1), content |-> f.answer,
        citations |-> ConvertCitations(f.citations),
        highlighted_passages |-> f.highlighted_passages]
  ELSE [type |-> "ai", id |-> ClockId(clock + 1), content |-> Apology, citations |-> <<>>,
        highlighted_passages |-> NoPassages]

\* (mutant) handleSend does not call onRefreshChats
SettleGenerateWithoutRefresh(f) ==
  /\ f.kind = "generate" /\ f.pc = "reply"
  /\ messages' = Append(messages, SettledMessage(f))
  /\ thinking' = FALSE
  /\ calls' = DropCall(f)
  /\ UNCHANGED <<selectedChat, query, chatLoading, sent, bHistory, organizedChats, issued,
                 loading, flows, backendVars, linkVars, paneVars>>

\* (mutant) thinking ends in the try block, not in a finally
SettleGenerateNoFinally(f) ==
  /\ f.kind = "generate" /\ f.pc = "reply"
  /\ messages' = Append(messages, SettledMessage(f))
  /\ IF f.ok
     THEN /\ loading' = TRUE
          /\ flows' = Joined (+) SetToBag({Flow("refresh", Null, Null, "", "list", Null, FALSE)})
     ELSE UNCHANGED <<loading, flows>>
  /\ thinking' = IF f.ok THEN FALSE ELSE thinking
  /\ calls' = DropCall(f)
  /\ UNCHANGED <<selectedChat, query, chatLoading, sent, bHistory, organizedChats, issued,
                 backendVars, linkVars, paneVars>>

\* handleSend after its await: append the AI message and ask App to refresh
\* the registry (onRefreshChats is loadChats), or append the apology; then
\* thinking ends
SettleGenerate(f) ==
  /\ f.kind = "generate" /\ f.pc = "reply"
  /\ messages' = Append(messages, SettledMessage(f))
  /\ IF f.ok
     THEN /\ loading' = TRUE
          /\ flows' = Joined (+) SetToBag({Flow("refresh", Null, Null, "", "list", Null, FALSE)})
     ELSE UNCHANGED <<loading, flows>>
  /\ thinking' = FALSE
  /\ calls' = DropCall(f)
  /\ UNCHANGED <<selectedChat, query, chatLoading, sent, bHistory, organizedChats, issued,
                 backendVars, linkVars, paneVars>>

NextChat ==
  \/ \E s \in ChatIds : ChatSelect(s)
  \/ ChatDeselect
  \/ \E q \in Queries : TypeQuery(q)
  \/ HandleSend
  \/ \E f \in Calling : ServeHistory(f)
  \/ \E f \in Calling : ServeGenerate(f)
  \/ \E f \in Calling : SettleHistory(f)
  \/ \E f \in Calling : SettleGenerate(f)

SpecChat == Init /\ [][NextChat]_vars

\* ChatInterface with one session that stays selected: session 1 has just
\* been selected, loadChatHistory has set loading and awaits its response
InitOpened ==
  /\ selectedChat = 1
  /\ organizedChats = EmptyView
  /\ loading = FALSE
  /\ flows = EmptyBag
  /\ issued = 0
  /\ bChats = [c \in ChatIds |-> NoChat]
  /\ bProjects = [p \in ProjectIds |-> "none"]
  /\ messages = <<>>
  /\ query = <<>>
  /\ thinking = FALSE
  /\ chatLoading = TRUE
  /\ calls = SetToBag({Call("history", 1, NoMessage, 0)})
  /\ sent = 0
  /\ bHistory = [s \in ChatIds |-> <<>>]
  /\ InitLink
  /\ InitPane

NextOpened ==
  \/ \E q \in Queries : TypeQuery(q)
  \/ HandleSend
  \/ \E f \in Calling : ServeHistory(f)
  \/ \E f \in Calling : ServeGenerate(f)
  \/ \E f \in Calling : SettleHistory(f)
  \/ \E f \in Calling : SettleGenerate(f)

SpecOpened == InitOpened /\ [][NextOpened]_vars

\* the generate call eventually resolves or rejects, and the event loop
\* eventually runs the continuation of handleSend
FairGenerate ==
  /\ WF_vars(\E f \in Calling : ServeGenerate(f))
  /\ WF_vars(\E f \in Calling : SettleGenerate(f))
SpecOpenedFair == InitOpened /\ [][NextOpened]_vars /\ FairGenerate

(***************************************************************************)
(* components/ChatMessage.tsx                                              *)
(***************************************************************************)
Nums == 1..MaxNum
MarkerTok(n) == "[" \o ToString(n) \o "]"
AngleTok(n) == "<CITATION_" \o ToString(n) \o ">"
BracketTok(n) == "[CITATION" \o ToString(n) \o "]"
ButtonTok(n) == "<button class=citation-button data-citation=" \o ToString(n) \o ">"
                  \o ToString(n) \o "</button>"
SupTok(n) == "<sup>[" \o ToString(n) \o "]</sup>"
Prose == "A "

\* the tokens of the texts rendered: prose, every marker, and the placeholder
\* forms of the first two numbers
PlaceholderNums == {1, 2}
Tokens == {Prose} \cup {MarkerTok(n) : n \in Nums}
            \cup {AngleTok(n) : n \in PlaceholderNums}
            \cup {BracketTok(n) : n \in PlaceholderNums}
Texts == UNION {[1..n -> Tokens] : n \in 0..MaxLen}

IsMarker(t) == \E n \in Nums : t = MarkerTok(n)
IsAngle(t) == \E n \in Nums : t = AngleTok(n)
IsBracket(t) == \E n \in Nums : t = BracketTok(n)
IsButton(t) == \E n \in Nums : t = ButtonTok(n)
IsSup(t) == \E n \in Nums : t = SupTok(n)
MarkerNum(t) == CHOOSE n \in Nums : t = MarkerTok(n)
AngleNum(t) == CHOOSE n \in Nums : t = AngleTok(n)
BracketNum(t) == CHOOSE n \in Nums : t = BracketTok(n)
\* the data-citation attribute of a button
DataCitation(t) == CHOOSE n \in Nums : t = ButtonTok(n)

\* String.prototype.replace with a global pattern: every occurrence
ReplaceAll(text, from, to) ==
  [i \in 1..Len(text) |-> IF text[i] = from THEN to ELSE text[i]]

\* String.prototype.replace with a string pattern: the first occurrence only
ReplaceFirst(text, from, to) ==
  [i \in 1..Len(text) |->
     IF text[i] = from /\ \A j \in 1..(i - 1) : text[j] # from THEN to ELSE text[i]]

\* citations.forEach((_citation, index) => ...) from the entry at position num on
RECURSIVE ProcessFrom(_, _, _)
ProcessFrom(text, num, len) ==
  IF num > len THEN text
  ELSE ProcessFrom(ReplaceAll(text, MarkerTok(num), AngleTok(num)), num + 1, len)

\* (mutant) processCitations numbers the entries from 0: citationNum = index
ProcessCitationsFromZero(content, citations) ==
  IF citations = <<>> THEN content ELSE ProcessFrom(content, 0, Len(citations) - 1)

\* processCitations: [n] becomes <CITATION_n> for n = index + 1 of every entry
ProcessCitations(content, citations) ==
  IF citations = <<>> THEN content ELSE ProcessFrom(content, 1, Len(citations))

\* renderContent: the children handed to ReactMarkdown, with every
\* <CITATION_n> turned into [CITATIONn]
RenderContent(m) ==
  LET processedContent == ProcessCitations(m.content, m.citations)
  IN  [i \in 1..Len(processedContent) |->
         IF IsAngle(processedContent[i])
         THEN BracketTok(AngleNum(processedContent[i]))
         ELSE processedContent[i]]

\* renderContentWithCitations: the inner HTML, with every [CITATIONn] turned
\* into a citation button
RenderContentWithCitations(m) ==
  LET children == RenderContent(m)
  IN  [i \in 1..Len(children) |->
         IF IsBracket(children[i])
         THEN ButtonTok(BracketNum(children[i]))
         ELSE children[i]]

\* the onClick of the rendered content: the citation handed to onViewSource
\* for a button with data-citation = num, if any
HasTarget(num, citations) == num - 1 >= 0 /\ num - 1 < Len(citations)
Target(num, citations) == citations[num]

\* formatContent of the earlier ChatMessage: for every entry, the first [n]
\* with n = index + 1 becomes a <sup>
RECURSIVE FormatFrom(_, _, _)
FormatFrom(text, num, len) ==
  IF num > len THEN text
  ELSE FormatFrom(ReplaceFirst(text, MarkerTok(num), SupTok(num)), num + 1, len)

FormatContent(content, citations) == FormatFrom(content, 1, Len(citations))

\* the AI messages a ChatMessage may be given: any text, and the citations
\* ChatInterface converts from any table with keys among Nums
InitMessage ==
  /\ \E t \in Texts, table \in SUBSET Nums :
       message = [type |-> "ai", content |-> t, citations |-> ConvertCitations(table)]
  /\ stage = "props"
  /\ rendered = <<>>
  /\ formatted = <<>>
  /\ clicked = 0
  /\ viewed = NoCitation

RenderMessage ==
  /\ stage = "props"
  /\ stage' = "rendered"
  /\ rendered' = RenderContentWithCitations(message)
  /\ formatted' = FormatContent(message.content, message.citations)
  /\ UNCHANGED <<message, clicked, viewed, selectedChat, registryVars, backendVars, chatVars,
                 paneVars>>

\* the user clicks the citation button at position p
ClickCitation(p) ==
  /\ stage = "rendered"
  /\ p \in 1..Len(rendered)
  /\ IsButton(rendered[p])
  /\ clicked' = p
  /\ viewed' = IF HasTarget(DataCitation(rendered[p]), message.citations)
               THEN Target(DataCitation(rendered[p]), message.citations)
               ELSE viewed
  /\ UNCHANGED <<message, stage, rendered, formatted, selectedChat, registryVars,
                 backendVars, chatVars, paneVars>>

NextLink ==
  \/ RenderMessage
  \/ \E p \in 1..MaxLen : ClickCitation(p)

\* a ChatMessage mounted with a message, the rest of the program at rest
InitRender ==
  /\ selectedChat = Null
  /\ organizedChats = EmptyView
  /\ loading = FALSE
  /\ flows = EmptyBag
  /\ issued = 0
  /\ bChats = [c \in ChatIds |-> NoChat]
  /\ bProjects = [p \in ProjectIds |-> "none"]
  /\ InitChat
  /\ InitMessage
  /\ InitPane

SpecLink == InitRender /\ [][NextLink]_vars

(***************************************************************************)
(* The span highlighter.  It runs behind viewDocument, outside the front   *)
(* end sources, and is modelled from the specification (section 4.2).  A   *)
(* document is a sequence of characters; the markup is <mark>...</mark>.   *)
(***************************************************************************)
\* the program at rest around a component under observation
InitIdle ==
  /\ selectedChat = Null
  /\ organizedChats = EmptyView
  /\ loading = FALSE
  /\ flows = EmptyBag
  /\ issued = 0
  /\ bChats = [c \in ChatIds |-> NoChat]
  /\ bProjects = [p \in ProjectIds |-> "none"]
  /\ InitChat
  /\ InitLink

Letters == {"a", "b"}
Documents == UNION {[1..n -> Letters] : n \in 0..MaxDoc}
OpenTag == <<"<", "m", "a", "r", "k", ">">>
CloseTag == <<"<", "/", "m", "a", "r", "k", ">">>

\* the spans of a text: 0 <= start < end <= length, end exclusive
SpansOf(text) ==
  {[start |-> a, end |-> b] : a \in 0..Len(text), b \in 0..Len(text)}
    \ {sp \in [start : 0..Len(text), end : 0..Len(text)] : sp.start >= sp.end}
SpanSeqs(text) == UNION {[1..n -> SpansOf(text)] : n \in 0..MaxSpans}

\* text[from:to]
Slice(text, from, to) ==
  SubSeq(text, from + 1, IF to < Len(text) THEN to ELSE Len(text))

\* x goes behind the spans that start at or after it: the sort is stable
InsertSpan(sorted, x) ==
  LET k == Cardinality({i \in 1..Len(sorted) : sorted[i].start >= x.start})
  IN SubSeq(sorted, 1, k) \o <<x>> \o SubSeq(sorted, k + 1, Len(sorted))

RECURSIVE SortFrom(_, _, _)
SortFrom(given, i, sorted) ==
  IF i > Len(given) THEN sorted
  ELSE SortFrom(given, i + 1, InsertSpan(sorted, given[i]))

\* (mutant) the spans are processed in the order given
SortSkipped(given) == given

\* sort spans by descending start offset
SortDescending(given) == SortFrom(given, 1, <<>>)

Markup(match) == OpenTag \o match \o CloseTag

\* before + markup(match) + after, sliced from the text as processed so far
MarkSpan(text, sp) ==
  Slice(text, 0, sp.start) \o Markup(Slice(text, sp.start, sp.end))
    \o Slice(text, sp.end, Len(text))

RECURSIVE MarkFrom(_, _, _)
MarkFrom(text, sorted, i) ==
  IF i > Len(sorted) THEN text
  ELSE MarkFrom(MarkSpan(text, sorted[i]), sorted, i + 1)

\* highlight(documentText, spans)
Highlight(text, given) == MarkFrom(text, SortDescending(given), 1)

InitHighlight ==
  /\ InitIdle
  /\ InitViewer
  /\ InitRest
  /\ request = NoRequest
  /\ outcome = "none"
  /\ documentText \in Documents
  /\ spans \in SpanSeqs(documentText)
  /\ marked = <<>>
  /\ hstage = "input"

HighlightDocument ==
  /\ hstage = "input"
  /\ marked' = Highlight(documentText, spans)
  /\ hstage' = "marked"
  /\ UNCHANGED <<documentText, spans, selectedChat, registryVars, backendVars, chatVars,
                 linkVars, viewerVars, apiVars, restVars>>

NextHighlight == HighlightDocument

SpecHighlight == InitHighlight /\ [][NextHighlight]_vars

(***************************************************************************)
(* lib/api.ts: the client.  A call is an endpoint and the HTTP response    *)
(* that fetch will give it (or no response: fetch itself rejects).         *)
(***************************************************************************)
JsonEndpoints ==
  {"createProject", "listProjects", "deleteProject", "newChat", "deleteChat",
   "listChats", "renameChat", "moveToProject", "toggleFavorite", "getChatHistory",
   "generate", "viewDocument", "saveRating"}
HttpStatuses == {200, 201, 204, 299, 300, 304, 400, 404, 500, 503}
Bodies == {"json", "blob"}
Responses ==
  [net : {"up"}, status : HttpStatuses, body : Bodies]
    \cup {[net |-> "down", status |-> 0, body |-> "blob"]}

\* fetch: Response.ok
ResponseOk(status) == status >= 200 /\ status <= 299

\* fetch: the null body statuses; a Response with one of them has no body,
\* whatever was sent
NullBodyStatuses == {101, 103, 204, 205, 304}

\* request<T>: throws when fetch rejects or the status is not ok, else
\* returns response.json(), which rejects when there is no body or the body
\* is not JSON
Request(resp) ==
  IF resp.net = "down" THEN "rejected"
  ELSE IF ~ResponseOk(resp.status) THEN "rejected"
  ELSE IF resp.status \in NullBodyStatuses THEN "rejected"
  ELSE IF resp.body = "json" THEN "value" ELSE "rejected"

\* (mutant) exportMessage returns the body of any response as a blob
ExportMessageUnchecked(resp) ==
  IF resp.net = "down" THEN "rejected" ELSE "value"

\* exportMessage: its own fetch, the same status test, then response.blob()
ExportMessage(resp) ==
  IF resp.net = "down" THEN "rejected"
  ELSE IF ~ResponseOk(resp.status) THEN "rejected"
  ELSE "value"

InitApi ==
  /\ InitIdle
  /\ InitViewer
  /\ InitRest
  /\ documentText = <<>>
  /\ spans = NoSpans
  /\ marked = <<>>
  /\ hstage = "none"
  /\ request \in [endpoint : JsonEndpoints \cup {"exportMessage"}, response : Responses]
  /\ outcome = "pending"

\* a JSON call settles
RequestSettles ==
  /\ outcome = "pending"
  /\ request.endpoint \in JsonEndpoints
  /\ outcome' = Request(request.response)
  /\ UNCHANGED <<request, selectedChat, registryVars, backendVars, chatVars, linkVars,
                 viewerVars, highlightVars, restVars>>

\* the export call settles
ExportMessageSettles ==
  /\ outcome = "pending"
  /\ request.endpoint = "exportMessage"
  /\ outcome' = ExportMessage(request.response)
  /\ UNCHANGED <<request, selectedChat, registryVars, backendVars, chatVars, linkVars,
                 viewerVars, highlightVars, restVars>>

NextApi == RequestSettles \/ ExportMessageSettles

SpecApi == InitApi /\ [][NextApi]_vars

(***************************************************************************)
(* components/ChatInterface.tsx: the source pane.  The transcript on       *)
(* display has been loaded from the stored history of the selected         *)
(* session, so the ids of its messages, `${selectedChat}-${index}`, are    *)
(* distinct and messages.find(m => m.id === messageId) gives the message   *)
(* whose citation was clicked.                                             *)
(***************************************************************************)
PassageKeys == {1, 2}

\* the excerpt j that exchange e stores for citation key k
Passage(e, k, j) ==
  [passage |-> "excerpt " \o ToString(e) \o "." \o ToString(k) \o "." \o ToString(j),
   passage_index |-> j]

\* the passages mappings the AI message of exchange e may be stored with:
\* none, or for some keys a list of excerpts, possibly empty
Mappings(e) ==
  {NoPassages} \cup
  {[present |-> TRUE, entries |-> [k \in D |-> [j \in 1..len[k] |-> Passage(e, k, j)]]] :
     D \in SUBSET PassageKeys, len \in [PassageKeys -> 0..MaxPassages]}

\* the exchanges a stored history may hold at position e: the query and the
\* answer with its citation table and passages mapping
Exchanges(e) ==
  {<<[type |-> "user", content |-> <<"q">>, citations |-> {},
      highlighted_passages |-> NoPassages],
     [type |-> "ai", content |-> <<"Answer ">>, citations |-> table,
      highlighted_passages |-> hp]>> :
     table \in SUBSET PassageKeys, hp \in Mappings(e)}

RECURSIVE HistoriesOf(_)
HistoriesOf(n) ==
  IF n = 0 THEN {<<>>}
  ELSE {h \o x : h \in HistoriesOf(n - 1), x \in Exchanges(n)}
Histories == UNION {HistoriesOf(n) : n \in 1..MaxExchanges}

\* session 1 is selected and its history has been loaded
InitSourcePane ==
  /\ selectedChat = 1
  /\ bChats = [c \in ChatIds |->
                 IF c = 1 THEN [status |-> "live", name |-> DefaultName,
                                project_id |-> Null, is_favorite |-> FALSE]
                 ELSE NoChat]
  /\ bProjects = [p \in ProjectIds |-> "none"]
  /\ organizedChats = Organize(bChats, bProjects)
  /\ loading = FALSE
  /\ flows = EmptyBag
  /\ issued = 0
  /\ \E h \in Histories :
       /\ bHistory = [c \in ChatIds |-> IF c = 1 THEN h ELSE <<>>]
       /\ messages = UiMessages(h, 1)
  /\ query = <<>>
  /\ thinking = FALSE
  /\ chatLoading = FALSE
  /\ calls = EmptyBag
  /\ sent = 0
  /\ InitLink
  /\ InitPane

\* messages.find(m => m.id === messageId), with the id of the message at
\* position i: the first message of the transcript that has this id
Find(transcript, i) ==
  transcript[CHOOSE j \in 1..Len(transcript) :
               /\ transcript[j].id = transcript[i].id
               /\ \A k \in 1..(j - 1) : transcript[k].id # transcript[i].id]

\* the selectedPassages after handleViewSource has found msg:
\* message.highlighted_passages[citation.id] || [] when the message has a
\* mapping, else what they were
PassagesAfter(msg, citation) ==
  IF msg.highlighted_passages.present
  THEN IF citation.id \in DOMAIN msg.highlighted_passages.entries
       THEN msg.highlighted_passages.entries[citation.id]
       ELSE <<>>
  ELSE selectedPassages

\* handleViewSource(citation, message.id): a citation of the message at
\* position i is clicked, in its text or in its list of sources
HandleViewSource(i, citation) ==
  /\ i \in 1..Len(messages)
  /\ messages[i].type = "ai"
  /\ \E n \in 1..Len(messages[i].citations) : messages[i].citations[n] = citation
  /\ selectedSource' = citation
  /\ selectedPassages' = PassagesAfter(Find(messages, i), citation)
  /\ showPdfViewer' = TRUE
  /\ shownFor' = <<i, citation.id>>
  /\ UNCHANGED <<selectedChat, registryVars, backendVars, chatVars, linkVars,
                 highlightVars, apiVars, restVars>>

\* the close button of the source pane
ClosePane ==
  /\ showPdfViewer
  /\ showPdfViewer' = FALSE
  /\ selectedPassages' = <<>>
  /\ shownFor' = <<>>
  /\ UNCHANGED <<selectedSource, selectedChat, registryVars, backendVars, chatVars,
                 linkVars, highlightVars, apiVars, restVars>>

\* the excerpts the source pane lists
PassageList ==
  IF showPdfViewer /\ selectedSource # NoCitation
  THEN [j \in 1..Len(selectedPassages) |-> selectedPassages[j].passage]
  ELSE <<>>

NextViewer ==
  \/ \E i \in 1..(2 * MaxExchanges), k \in PassageKeys : HandleViewSource(i, [id |-> k])
  \/ ClosePane

SpecViewer == InitSourcePane /\ [][NextViewer]_vars

(***************************************************************************)
(* components/ChatSidebar.tsx: the order of the project buckets and of the *)
(* chats in a bucket.  A time stamp is the number getTime() gives for it.  *)
(* The chats of a bucket come from listChats in the order the backend      *)
(* gives them, by the specification (section 4.4) newest update first.     *)
(***************************************************************************)
Stamps == 1..MaxStamp

\* the chats of one bucket of a listChats response: newest update first
Descending(chats) ==
  \A i, j \in 1..Len(chats) : i < j => chats[i].updated_at >= chats[j].updated_at
BucketChats ==
  {chats \in UNION {[1..n -> [session_id : 1..MaxListed, updated_at : Stamps]] :
                      n \in 0..MaxListed} :
     /\ \A i \in 1..Len(chats) : chats[i].session_id = i
     /\ Descending(chats)}

\* Object.entries(organizedChats.projects): [projectId, {project, chats}],
\* the projects named by their place in the response
EntryList(created, chats) ==
  [i \in DOMAIN created |->
     [projectId |-> i, project |-> [created_at |-> created[i]], chats |-> chats[i]]]

\* the comparator of sortedProjects: getTime(b.created_at) - getTime(a.created_at)
Compare(a, b) == b.project.created_at - a.project.created_at

\* Array.prototype.sort is stable: an entry goes behind every entry the
\* comparator does not put behind it
InsertEntry(sorted, e) ==
  LET ahead == {i \in 1..Len(sorted) : Compare(sorted[i], e) <= 0}
      k == IF ahead = {} THEN 0 ELSE CHOOSE i \in ahead : \A j \in ahead : j <= i
  IN  SubSeq(sorted, 1, k) \o <<e>> \o SubSeq(sorted, k + 1, Len(sorted))

RECURSIVE SortEntriesFrom(_, _, _)
SortEntriesFrom(sorted, entries, i) ==
  IF i > Len(entries) THEN sorted
  ELSE SortEntriesFrom(InsertEntry(sorted, entries[i]), entries, i + 1)

\* (mutant) the buckets are listed in the order of the response
SortedProjectsAsGiven(entries) == entries

\* sortedProjects = Object.entries(organizedChats.projects).sort(...)
SortedProjects(entries) == SortEntriesFrom(<<>>, entries, 1)

\* projectData.chats.map(...): one row per chat, in the order of the bucket
ChatRows(chats) == [i \in 1..Len(chats) |-> chats[i]]

InitSidebar ==
  /\ InitIdle
  /\ InitPanes
  /\ InitIdsIdle
  /\ InitHeaderIdle
  /\ InitSendIdle
  /\ \E n \in 0..MaxBuckets :
       \E created \in [1..n -> Stamps], chats \in [1..n -> BucketChats] :
         projectEntries = EntryList(created, chats)
  /\ sortedProjects = <<>>
  /\ sbstage = "props"

\* ChatSidebar renders
RenderSidebar ==
  /\ sbstage = "props"
  /\ sortedProjects' =
       LET sorted == SortedProjects(projectEntries) IN
         [i \in 1..Len(sorted) |->
            [projectId |-> sorted[i].projectId, project |-> sorted[i].project,
             chats |-> ChatRows(sorted[i].chats)]]
  /\ sbstage' = "rendered"
  /\ UNCHANGED <<projectEntries, selectedChat, registryVars, backendVars, chatVars,
                 linkVars, viewerVars, highlightVars, apiVars, idVars,
                 headerVars, pressed>>

NextSidebar == RenderSidebar

SpecSidebar == InitSidebar /\ [][NextSidebar]_vars

(***************************************************************************)
(* components/ChatInterface.tsx: the ids of the messages.  The transcript  *)
(* is seen through its ids only: the id handleSend gives the user message  *)
(* is the clock reading, the id it gives the answer or the apology is the  *)
(* clock reading plus 1, and the id loadChatHistory gives the message at   *)
(* index i of session s is `${s}-${i}` (no clock reading has a "-").       *)
(***************************************************************************)
\* uiMessages: the ids of a history of n messages loaded for session s
LoadedIds(s, n) == [i \in 1..n |-> LoadedId(s, i - 1)]

\* messages.find(m => m.id === messageId): the first position with that id
FindById(transcript, id) ==
  IF \E i \in 1..Len(transcript) : transcript[i] = id
  THEN CHOOSE i \in 1..Len(transcript) :
         /\ transcript[i] = id
         /\ \A j \in 1..(i - 1) : transcript[j] # id
  ELSE 0

InitIds ==
  /\ InitIdle
  /\ InitPanes
  /\ InitSidebarIdle
  /\ InitHeaderIdle
  /\ InitSendIdle
  /\ clock = 0
  /\ msgIds = <<>>
  /\ awaiting = FALSE
  /\ found = <<>>

\* time passes: Date.now() never goes back
Tick ==
  /\ clock < MaxClock
  /\ clock' = clock + 1
  /\ UNCHANGED <<msgIds, awaiting, found, selectedChat, registryVars, backendVars, chatVars,
                 linkVars, viewerVars, highlightVars, apiVars, sidebarVars,
                 headerVars, pressed>>

\* handleSend up to its await: the user message gets Date.now() as its id
SendAt ==
  /\ ~awaiting
  /\ Len(msgIds) + 2 <= MaxIds
  /\ msgIds' = Append(msgIds, ClockId(clock))
  /\ awaiting' = TRUE
  /\ UNCHANGED <<clock, found, selectedChat, registryVars, backendVars, chatVars,
                 linkVars, viewerVars, highlightVars, apiVars, sidebarVars,
                 headerVars, pressed>>

\* handleSend after its await: the answer, or the apology, gets Date.now() + 1
AnswerAt ==
  /\ awaiting
  /\ msgIds' = Append(msgIds, ClockId(clock + 1))
  /\ awaiting' = FALSE
  /\ UNCHANGED <<clock, found, selectedChat, registryVars, backendVars, chatVars,
                 linkVars, viewerVars, highlightVars, apiVars, sidebarVars,
                 headerVars, pressed>>

\* loadChatHistory after its await: the transcript is replaced by the n
\* messages of the history of session s
LoadAt(s, n) ==
  /\ msgIds' = LoadedIds(s, n)
  /\ msgIds' # msgIds
  /\ UNCHANGED <<clock, awaiting, found, selectedChat, registryVars, backendVars, chatVars,
                 linkVars, viewerVars, highlightVars, apiVars, sidebarVars,
                 headerVars, pressed>>

\* a click on a citation of the message at position i: handleViewSource
\* looks the message up by its id
ClickAt(i) ==
  /\ found' = <<i, FindById(msgIds, msgIds[i])>>
  /\ found' # found
  /\ UNCHANGED <<clock, msgIds, awaiting, selectedChat, registryVars, backendVars, chatVars,
                 linkVars, viewerVars, highlightVars, apiVars, sidebarVars,
                 headerVars, pressed>>

NextIds ==
  \/ Tick
  \/ SendAt
  \/ AnswerAt
  \/ \E s \in ChatIds, n \in 0..MaxLoaded : LoadAt(s, n)
  \/ \E i \in 1..Len(msgIds) : ClickAt(i)

SpecIds == InitIds /\ [][NextIds]_vars

(***************************************************************************)
(* The chat name of the header (ChatInterface).  The name starts as        *)
(* 'New Chat'; loadChatHistory sets it from the first user message of the  *)
(* history it has loaded, and handleRename sets it to the text of the      *)
(* rename input.  A text is a sequence of characters; the characters of a  *)
(* stored message tell the session it belongs to.  The loads are observed  *)
(* with the history the backend answers left open; the rename controls     *)
(* are observed on their own.                                              *)
(***************************************************************************)
\* a stored message of session s with n characters
TextOf(s, n) == [i \in 1..n |-> ToString(s)]
\* the lengths stored messages have: as long as the cut, and one longer
TextLens == {NameCut, NameCut + 1}
HeaderMessages(s) ==
  [type : {"user", "ai"}, content : {TextOf(s, n) : n \in TextLens},
   citations : {{}}, highlighted_passages : {NoPassages}]
\* what getChatHistory may answer for session s
StoredHistories(s) == UNION {[1..n -> HeaderMessages(s)] : n \in 0..MaxLoaded}

\* what the user may type into the rename input
RenameInputs == {<<>>, <<" ">>, <<"r">>}

\* a loadChatHistory invocation at its await, and whether its call succeeds
HistoryLoad(s, ok) == [session |-> s, ok |-> ok]

\* the pane as mounted: no session selected, nothing in flight
InitMounted ==
  /\ InitIdle
  /\ InitPane

\* App passes a new selectedChat: the effect on [selectedChat] runs
\* loadChatHistory up to its await
HeaderSelect(s, ok) ==
  /\ s # selectedChat
  /\ BagCardinality(hLoads) < MaxCalls
  /\ selectedChat' = s
  /\ chatLoading' = TRUE
  /\ hLoads' = hLoads (+) SetToBag({HistoryLoad(s, ok)})
  /\ UNCHANGED <<chatName, isRenaming, newChatName, messages, query, thinking, calls,
                 sent, bHistory, registryVars, backendVars, linkVars, viewerVars,
                 highlightVars, apiVars, sidebarVars, idVars, pressed>>

\* App passes null (the selected session was deleted): the effect returns
HeaderDeselect ==
  /\ selectedChat # Null
  /\ selectedChat' = Null
  /\ UNCHANGED <<headerVars, chatVars, registryVars, backendVars, linkVars, viewerVars,
                 highlightVars, apiVars, sidebarVars, idVars, pressed>>

\* loadChatHistory after its await, for the invocation f and the history the
\* backend answered: the transcript and, if there is a user message, the name
HistoryLoaded(f, history) ==
  /\ BagIn(f, hLoads)
  /\ hLoads' = hLoads (-) SetToBag({f})
  /\ IF f.ok
     THEN LET uiMessages == UiMessages(history, f.session) IN
            /\ messages' = uiMessages
            /\ chatName' = NameAfterLoad(chatName, uiMessages)
     ELSE UNCHANGED <<messages, chatName>>
  /\ chatLoading' = FALSE
  /\ UNCHANGED <<selectedChat, isRenaming, newChatName, query, thinking, calls, sent,
                 bHistory, registryVars, backendVars, linkVars, viewerVars,
                 highlightVars, apiVars, sidebarVars, idVars, pressed>>

\* the user types into the rename input (shown while renaming)
TypeNewChatName(n) ==
  /\ selectedChat # Null
  /\ isRenaming
  /\ n # newChatName
  /\ newChatName' = n
  /\ UNCHANGED <<chatName, isRenaming, hLoads, selectedChat, chatVars, registryVars,
                 backendVars, linkVars, viewerVars, highlightVars, apiVars,
                 sidebarVars, idVars, pressed>>

\* handleRename: Save or Enter while renaming calls onRenameChat (App's
\* handleRenameChat, which starts the rename_chat request) and takes the new
\* name; otherwise (the pencil, or a blank name) the rename input opens
HandleRename ==
  /\ selectedChat # Null
  /\ IF isRenaming /\ Trim(newChatName) # <<>> /\ selectedChat # Null
     THEN /\ BagCardinality(flows) < MaxFlows
          /\ issued < MaxIntents
          /\ issued' = issued + 1
          /\ flows' = Joined (+) SetToBag({Flow("renameChat", selectedChat, Null,
                                  newChatName, "call", Null,
                                  flows = EmptyBag
                                    /\ organizedChats = Organize(bChats, bProjects))})
          /\ chatName' = newChatName
          /\ isRenaming' = FALSE
          /\ newChatName' = <<>>
     ELSE /\ isRenaming' = TRUE
          /\ newChatName' = chatName
          /\ UNCHANGED <<chatName, flows, issued>>
  /\ <<chatName, isRenaming, newChatName, flows>>' # <<chatName, isRenaming, newChatName, flows>>
  /\ UNCHANGED <<hLoads, selectedChat, chatVars, organizedChats, loading, backendVars,
                 linkVars, viewerVars, highlightVars, apiVars, sidebarVars, idVars, pressed>>

\* Cancel: setIsRenaming(false)
CancelRename ==
  /\ selectedChat # Null
  /\ isRenaming
  /\ isRenaming' = FALSE
  /\ UNCHANGED <<chatName, newChatName, hLoads, selectedChat, chatVars, registryVars,
                 backendVars, linkVars, viewerVars, highlightVars, apiVars,
                 sidebarVars, idVars, pressed>>

NextHeader ==
  \/ \E s \in ChatIds, ok \in BOOLEAN : HeaderSelect(s, ok)
  \/ HeaderDeselect
  \/ \E f \in BagToSet(hLoads) : \E history \in StoredHistories(f.session) :
       HistoryLoaded(f, history)

SpecHeader == InitMounted /\ [][NextHeader]_vars

\* the rename controls of the header, with session 1 selected and its
\* history on its way
NextRename ==
  \/ \E n \in RenameInputs : TypeNewChatName(n)
  \/ HandleRename
  \/ CancelRename
  \/ \E f \in Calling : ServeHistory(f)
  \/ \E f \in Calling : SettleHistory(f)

SpecRename == InitOpened /\ [][NextRename]_vars

(***************************************************************************)
(* handleSend as the handler it is, its early return included, while App   *)
(* selects and deselects sessions: the query text stays when the session   *)
(* on display is deselected.  (The pane shows the query input only while   *)
(* a session is selected; the handler has its own test all the same.)      *)
(***************************************************************************)
\* (mutant) the session is not tested
SendableAnySession(q, c) == Trim(q) # <<>>
\* if (!query.trim() || !selectedChat) return;
Sendable(q, c) == Trim(q) # <<>> /\ c # Null

\* handleSend is called (Enter in the query input, or the send button)
PressSend ==
  /\ SendButtonEnabled \/ InputEnabled
  /\ pressed' = <<query, selectedChat>>
  /\ IF Sendable(query, selectedChat)
     THEN /\ sent < MaxSends
          /\ BagCardinality(calls) < MaxCalls
          /\ LET userMessage == [type |-> "user", id |-> ClockId(clock),
                                 content |-> query, citations |-> <<>>,
                                 highlighted_passages |-> NoPassages] IN
               /\ messages' = Append(messages, userMessage)
               /\ calls' = PutCall(Call("generate", selectedChat, userMessage, Len(messages)))
          /\ query' = <<>>
          /\ thinking' = TRUE
          /\ sent' = sent + 1
     ELSE UNCHANGED <<messages, calls, query, thinking, sent>>
  /\ UNCHANGED <<selectedChat, chatLoading, bHistory, registryVars, backendVars, linkVars,
                 viewerVars, highlightVars, apiVars, sidebarVars, idVars, headerVars>>

NextCompose ==
  \/ \E s \in ChatIds : ChatSelect(s)
  \/ ChatDeselect
  \/ \E q \in Queries : TypeQuery(q)
  \/ PressSend
  \/ \E f \in Calling : ServeHistory(f)
  \/ \E f \in Calling : ServeGenerate(f)
  \/ \E f \in Calling : SettleHistory(f)
  \/ \E f \in Calling : SettleGenerate(f)

SpecCompose == InitMounted /\ [][NextCompose]_vars

(***************************************************************************)
(* Properties                                                              *)
(***************************************************************************)
Range(seq) == {seq[i] : i \in 1..Len(seq)}

\* the generate calls in flight for session s, as a bag
Awaiting(s) ==
  [f \in {g \in Calling : g.kind = "generate" /\ g.session = s} |-> calls[f]]

\* the step is the continuation of handleSend for call f
GenerateSettles(f) ==
  f.kind = "generate" /\ f.pc = "reply" /\ calls' = DropCall(f)

\* C1: a generate call issued while session A was selected and settling while
\* another session is selected is discarded: the message built from it (the
\* answer or the apology) is not appended to the transcript on display.
C1_LateResponseDiscarded ==
  [][\A f \in Calling :
       (GenerateSettles(f) /\ selectedChat # Null /\ f.session # selectedChat)
         => messages' = messages]_vars

\* C2: when the generate call of a send fails, the optimistic user message is
\* still the last message of the transcript, the apology is appended after
\* it, and the transcript is exactly 2 messages longer than before the send.
C2_FailedSendAddsTwo ==
  [][\A f \in Calling :
       (GenerateSettles(f) /\ ~f.ok) =>
          /\ messages # <<>>
          /\ messages[Len(messages)] = f.userMessage
          /\ messages' = Append(messages, [type |-> "ai", id |-> ClockId(clock + 1),
                                           content |-> Apology, citations |-> <<>>,
                                           highlighted_passages |-> NoPassages])
          /\ Len(messages') = f.len0 + 2]_vars

\* C3: every session has at most one generate call in flight, and while one
\* is in flight the component is thinking, whatever session is selected.
C3_OneAwaitingPerSession ==
  /\ \A s \in ChatIds : BagCardinality(Awaiting(s)) <= 1
  /\ (\E f \in Calling : f.kind = "generate") => thinking

\* C3 witness: a send is awaiting its response while another session has
\* been selected
C3_AwaitingWhileElsewhere ==
  \E f \in Calling :
    /\ f.kind = "generate"
    /\ selectedChat # Null /\ selectedChat # f.session
    /\ thinking

\* the chat records of a view, of all buckets
Records(view) ==
  Range(view.favorites) \cup Range(view.no_project)
    \cup UNION {Range(view.projects[p].chats) : p \in ViewProjects(view)}

\* C4: in the registry view a chat is in favorites iff its is_favorite flag is
\* set, it is in the unfiled bucket iff it has no project, and it is in the
\* bucket of project p iff p is its project (so it is in exactly one of the
\* two, and a favorite without a project is in favorites and in unfiled).
C4_ViewConsistent ==
  \A r \in Records(organizedChats) :
    /\ (r.session_id \in Ids(organizedChats.favorites)) <=> r.is_favorite
    /\ (r.session_id \in Ids(organizedChats.no_project)) <=> (r.project_id = Null)
    /\ r.project_id # Null => r.project_id \in ViewProjects(organizedChats)
    /\ \A p \in ViewProjects(organizedChats) :
         (r.session_id \in InProject(organizedChats, p)) <=> (r.project_id = p)

\* C4 witness: every intent has completed and the view lists a favorite
\* without a project, in favorites and in the unfiled bucket
C4_FavoriteAndUnfiled ==
  /\ flows = EmptyBag
  /\ Ids(organizedChats.favorites) \cap Ids(organizedChats.no_project) # {}

\* the step is the end of loadChats for flow f, with a response
LoadChatsCompletes(f) ==
  f.pc = "listReply" /\ f.ok /\ flows' = Drop(f)

\* C5: when a deleteProject(P) intent, issued alone on an up-to-date view,
\* completes, bucket P is gone and every chat X that was listed in P and was
\* not a favorite is listed in the unfiled bucket and in no project bucket.
C5_DeleteProjectKeepsChats ==
  [][\A f \in InFlight :
       (f.kind = "deleteProject" /\ f.alone /\ LoadChatsCompletes(f)) =>
          /\ f.projectId \notin ViewProjects(organizedChats')
          /\ \A X \in InProject(organizedChats, f.projectId)
                        \ Ids(organizedChats.favorites) :
               /\ X \in Ids(organizedChats'.no_project)
               /\ X \notin InAnyProject(organizedChats')]_vars

\* C5 witness: the backend has deleted project P and unfiled its chat X, and
\* the reload of that intent is about to replace the view that lists X in P
C5_DeleteProjectCompleting ==
  \E f \in InFlight :
    /\ f.kind = "deleteProject" /\ f.alone /\ f.pc = "listReply" /\ f.ok
    /\ bProjects[f.projectId] = "deleted"
    /\ \E X \in InProject(organizedChats, f.projectId) \ Ids(organizedChats.favorites) :
         /\ X \in Live(bChats) /\ bChats[X].project_id = Null
         /\ X \in Ids(f.chats.no_project)

\* the step is the continuation of a handler after its mutation call succeeded
MutationSettles(f) ==
  f.pc = "reply" /\ f.ok /\ flows' = Replace(f, [f EXCEPT !.pc = "list"])

\* C6: when deleteChat(c) has succeeded the selected session is not c, also
\* when the selection changed while the request was in flight; and deleting
\* a session other than the open one leaves the selection as it is.
C6_DeleteClearsSelection ==
  [][\A f \in InFlight :
       (f.kind = "deleteChat" /\ MutationSettles(f)) =>
          /\ selectedChat' # f.chatId
          /\ selectedChat # f.chatId => selectedChat' = selectedChat]_vars

HasCitation(n, citations) == \E i \in 1..Len(citations) : citations[i].id = n

\* C7: a marker [n] is linked iff some citation has displayIndex n, and the
\* click on its button hands exactly that citation to onViewSource.
C7_LookupByDisplayIndex ==
  stage = "rendered" =>
    /\ Len(rendered) = Len(message.content)
    /\ \A p \in 1..Len(message.content) :
         IsMarker(message.content[p]) =>
           LET n == MarkerNum(message.content[p]) IN
             /\ IsButton(rendered[p]) <=> HasCitation(n, message.citations)
             /\ IsButton(rendered[p]) =>
                  /\ HasTarget(DataCitation(rendered[p]), message.citations)
                  /\ Target(DataCitation(rendered[p]), message.citations).id = n

\* the citation table has the display indices 1..k in order
Contiguous(citations) == \A i \in 1..Len(citations) : citations[i].id = i
NoPlaceholder(text) == \A p \in 1..Len(text) : ~IsAngle(text[p]) /\ ~IsBracket(text[p])

\* C8: with a citation table of display indices 1..k in order, every
\* occurrence of a marker [i], i <= k, is rendered at its own position as one
\* button bound to the citation with displayIndex i (so the buttons keep the
\* left-to-right order of the markers); a click on it views that citation;
\* and a text of prose and markers has no other button.
C8_ContiguousMarkersLinked ==
  (stage = "rendered" /\ Contiguous(message.citations)) =>
    /\ Len(rendered) = Len(message.content)
    /\ \A p \in 1..Len(message.content) :
         (IsMarker(message.content[p])
            /\ MarkerNum(message.content[p]) <= Len(message.citations)) =>
           LET i == MarkerNum(message.content[p]) IN
             /\ rendered[p] = ButtonTok(i)
             /\ HasTarget(i, message.citations)
             /\ Target(i, message.citations).id = i
             /\ clicked = p => viewed.id = i
    /\ NoPlaceholder(message.content) =>
         \A p \in 1..Len(rendered) :
           IsButton(rendered[p]) =>
             /\ IsMarker(message.content[p])
             /\ MarkerNum(message.content[p]) <= Len(message.citations)

\* C8 witness: "... [1] ... [2]" with citations 1, 2 rendered, the button of
\* [2] clicked and citation 2 viewed
C8_TwoAnchorsInOrder ==
  /\ stage = "rendered" /\ Contiguous(message.citations) /\ Len(message.citations) = 2
  /\ \E p, q \in 1..Len(message.content) :
       /\ p < q
       /\ message.content[p] = MarkerTok(1) /\ message.content[q] = MarkerTok(2)
       /\ rendered[p] = ButtonTok(1) /\ rendered[q] = ButtonTok(2)
       /\ clicked = q /\ viewed = [id |-> 2]

\* C9: rendering gives an output for every text and table, and a marker [n]
\* that no citation matches stays the literal text "[n]".
C9_UnmatchedStaysLiteral ==
  stage = "rendered" =>
    /\ Len(rendered) = Len(message.content)
    /\ \A p \in 1..Len(message.content) :
         (IsMarker(message.content[p])
            /\ ~HasCitation(MarkerNum(message.content[p]), message.citations)) =>
           rendered[p] = message.content[p]

\* C10: when a marker [n] that a citation matches occurs several times, every
\* occurrence is an anchor of its own and all of them resolve to the citation
\* n, in the rendering of ChatMessage and in that of the earlier ChatMessage.
C10_EveryOccurrenceLinked ==
  stage = "rendered" =>
    \A p, q \in 1..Len(message.content) :
      (p < q /\ IsMarker(message.content[p]) /\ message.content[q] = message.content[p]
         /\ HasCitation(MarkerNum(message.content[p]), message.citations)) =>
        LET n == MarkerNum(message.content[p]) IN
          /\ rendered[p] = ButtonTok(n) /\ rendered[q] = ButtonTok(n)
          /\ HasTarget(n, message.citations) /\ Target(n, message.citations).id = n
          /\ formatted[p] = SupTok(n) /\ formatted[q] = SupTok(n)

\* the sequences that hold the spans of given in another order
Reorderings(given) ==
  {[i \in 1..Len(given) |-> given[pi[i]]] :
     pi \in {f \in [1..Len(given) -> 1..Len(given)] :
               \A i, j \in 1..Len(given) : f[i] = f[j] => i = j}}

\* the text starts with tag at position i
StartsAt(text, i, tag) ==
  /\ i + Len(tag) - 1 <= Len(text)
  /\ SubSeq(text, i, i + Len(tag) - 1) = tag

\* the text without the highlight boundaries, removed in one pass from the left
RECURSIVE StripFrom(_, _)
StripFrom(text, i) ==
  IF i > Len(text) THEN <<>>
  ELSE IF StartsAt(text, i, OpenTag) THEN StripFrom(text, i + Len(OpenTag))
  ELSE IF StartsAt(text, i, CloseTag) THEN StripFrom(text, i + Len(CloseTag))
  ELSE <<text[i]>> \o StripFrom(text, i + 1)
Strip(text) == StripFrom(text, 1)

\* C11: highlight gives the same marked document for every order in which
\* the spans are given, span sets with two spans of the same start included.
C11_OrderIndependent ==
  hstage = "marked" =>
    \A q \in Reorderings(spans) : Highlight(documentText, q) = marked

\* spans with the same start offset are the same span
TiesAreEqual(given) ==
  \A i, j \in 1..Len(given) : given[i].start = given[j].start => given[i] = given[j]

\* C11 as amended: highlight gives the same marked document for every order
\* in which the spans are given, when no two different spans have the same
\* start offset.
C11_OrderIndependentNoTies ==
  (hstage = "marked" /\ TiesAreEqual(spans)) =>
    \A q \in Reorderings(spans) : Highlight(documentText, q) = marked

\* C11 witness: two spans given in ascending order of start have been marked,
\* and the spans given in the other order give the same document
C11_TwoSpansAscending ==
  /\ hstage = "marked" /\ Len(spans) = 2
  /\ spans[1].start < spans[2].start
  /\ marked # documentText
  /\ Highlight(documentText, <<spans[2], spans[1]>>) = marked

Overlapping(given) ==
  \E i, j \in 1..Len(given) :
    i # j /\ given[i].start < given[j].end /\ given[j].start < given[i].end

\* C19: for spans that overlap, the markup of the span processed first is
\* left intact by the later spans: taking the highlight boundaries out of the
\* marked document gives the document text back.
C19_OverlapKeepsText ==
  (hstage = "marked" /\ Overlapping(spans)) => Strip(marked) = documentText

\* the copies of flow f in a bag of flows, whatever their bookkeeping flag
Count(f, bag) ==
  CopiesIn([f EXCEPT !.alone = TRUE], bag) + CopiesIn([f EXCEPT !.alone = FALSE], bag)
\* the step resumes flow f
Resumed(f) == Count(f, flows') < Count(f, flows)
\* the step leaves flow f awaiting listChats
Reloading(f) ==
  Count([f EXCEPT !.pc = "list"], flows') > Count([f EXCEPT !.pc = "list"], flows)

\* C12: when the mutation call of an intent has succeeded, its handler goes
\* on to request listChats; and the registry view changes only in a step
\* that ends a loadChats with a response, to that whole response.
C12_ReloadAfterMutation ==
  [][/\ \A f \in InFlight : (f.pc = "reply" /\ f.ok /\ Resumed(f)) => Reloading(f)
     /\ organizedChats' # organizedChats =>
          \E f \in InFlight :
            f.pc = "listReply" /\ f.ok /\ Resumed(f) /\ organizedChats' = f.chats]_vars

\* C12 witness: a mutation has succeeded and the response of its reload is
\* about to replace a view that is not empty and differs from it
C12_ReloadArrived ==
  \E f \in InFlight :
    /\ f.kind \notin {"mount", "refresh"}
    /\ f.pc = "listReply" /\ f.ok
    /\ organizedChats # EmptyView /\ organizedChats # f.chats

\* the session state that a view lists
ChatsIn(view) ==
  LET listed == Records(view) IN
    [c \in ChatIds |->
       IF \E r \in listed : r.session_id = c
       THEN LET r == CHOOSE x \in listed : x.session_id = c
            IN [status |-> "live", name |-> r.name,
                project_id |-> r.project_id, is_favorite |-> r.is_favorite]
       ELSE NoChat]
ProjectsIn(view) ==
  [p \in ProjectIds |-> IF p \in ViewProjects(view) THEN "live" ELSE "none"]
\* the view is one listChats response: all its buckets organize one session state
Whole(view) ==
  LET chats == ChatsIn(view)
      projects == ProjectsIn(view)
  IN view = Organize(chats, projects)

\* C20: the registry view starts as the empty view and every step that
\* changes it leaves one whole listChats response in it, never buckets of
\* two responses, also with several intents in flight.
C20_ViewIsOneResponse ==
  [][organizedChats' # organizedChats => Whole(organizedChats')]_vars

\* C20 witness: two reloads have their responses, different ones, and the
\* view, not empty, is neither the backend's current state nor empty
C20_TwoResponsesPending ==
  /\ organizedChats # EmptyView
  /\ \E f, g \in InFlight :
       /\ f.pc = "listReply" /\ f.ok /\ g.pc = "listReply" /\ g.ok
       /\ f.chats # g.chats
       /\ organizedChats # f.chats /\ organizedChats # g.chats

\* C13: a call whose HTTP status is not a success status settles as rejected
\* and never as a value, a JSON call and the binary export call alike.
C13_FailureStatusRejects ==
  (outcome \in {"value", "rejected"}
     /\ request.response.net = "up" /\ ~ResponseOk(request.response.status)) =>
    outcome = "rejected"

\* C13 witness: the export call got the status 404 and has been rejected
C13_ExportRejected ==
  /\ request.endpoint = "exportMessage"
  /\ request.response.net = "up" /\ request.response.status = 404
  /\ outcome = "rejected"

\* the step is the continuation of loadChatHistory for call f
HistorySettles(f) ==
  f.kind = "history" /\ f.pc = "reply" /\ calls' = DropCall(f)

\* C14: a history response that arrives for a session that is no longer the
\* selected one is discarded: the transcript on display is left as it is (so
\* after selecting A and then B the transcript is never replaced by A's
\* history, whatever the order of the two responses).
C14_StaleHistoryDiscarded ==
  [][\A f \in Calling :
       (HistorySettles(f) /\ f.ok /\ selectedChat # Null /\ f.session # selectedChat)
         => messages' = messages]_vars

\* C15: when the history fetch of the selected session has failed, the
\* transcript on display holds no message loaded from the history of another
\* session and the loading state has ended.
C15_FailedHistoryEmptiesView ==
  [][\A f \in Calling :
       (HistorySettles(f) /\ ~f.ok /\ f.session = selectedChat)
         => /\ \A i \in 1..Len(messages') : messages'[i].id.session \in {Null, f.session}
            /\ chatLoading' = FALSE]_vars

\* C16: the step that issues the generate call of a send has appended the
\* optimistic user message, cleared the query input and set thinking; the
\* call carries the session selected at send time and the text of that
\* user message, the text of the query input.
C16_SendIsOptimistic ==
  [][sent' = sent + 1 =>
       \E f \in BagToSet(calls') :
         /\ f.kind = "generate" /\ f.pc = "call"
         /\ CopiesIn(f, calls') = CopiesIn(f, calls) + 1
         /\ f.session = selectedChat
         /\ f.userMessage.type = "user" /\ f.userMessage.content = query
         /\ messages' = Append(messages, f.userMessage)
         /\ query' = <<>>
         /\ thinking']_vars

\* C16 witness: a generate call is on its way, the query input is empty, the
\* component is thinking and the user message of the call ends the transcript
C16_SendIssued ==
  \E f \in Calling :
    /\ f.kind = "generate" /\ f.pc = "call" /\ f.session = selectedChat
    /\ thinking /\ query = <<>>
    /\ messages # <<>> /\ messages[Len(messages)] = f.userMessage
    /\ f.userMessage.content = <<"q">>

\* the loadChats invocation that onRefreshChats starts
Refresh == Flow("refresh", Null, Null, "", "list", Null, FALSE)

\* C17: when a generate call has succeeded, its continuation appends one AI
\* message built from the response (answer text, citation table, passages
\* mapping) and requests one registry refresh.
C17_AnswerAppendedOnce ==
  [][\A f \in Calling :
       (GenerateSettles(f) /\ f.ok) =>
          /\ messages' = Append(messages,
               [type |-> "ai", id |-> ClockId(clock + 1), content |-> f.answer,
                citations |-> ConvertCitations(f.citations),
                highlighted_passages |-> f.highlighted_passages])
          /\ BagCardinality(flows') = BagCardinality(flows) + 1
          /\ Count(Refresh, flows') = Count(Refresh, flows) + 1]_vars

\* C17 witness: the answer of a send, with its citation table and its
\* passages mapping, ends the transcript and a registry refresh is in flight
C17_AnswerShown ==
  /\ ~thinking /\ calls = EmptyBag /\ messages # <<>>
  /\ LET m == messages[Len(messages)] IN
       /\ m.type = "ai" /\ m.content # Apology
       /\ m.citations # <<>> /\ m.highlighted_passages.present
  /\ Count(Refresh, flows) >= 1

\* the excerpts that message msg holds for citation key k
Excerpts(msg, k) ==
  IF msg.highlighted_passages.present /\ k \in DOMAIN msg.highlighted_passages.entries
  THEN [j \in 1..Len(msg.highlighted_passages.entries[k]) |->
          msg.highlighted_passages.entries[k][j].passage]
  ELSE <<>>

\* C18: after a click on a citation of a message the source pane lists the
\* excerpts that this message's passages mapping holds for the citation's
\* key, in order and verbatim, and none when the message has no mapping or
\* no entry for the key.
C18_PaneShowsClickedPassages ==
  (showPdfViewer /\ shownFor # <<>>) =>
    PassageList = Excerpts(messages[shownFor[1]], shownFor[2])

\* C21: the sidebar lists the project buckets newest created first, whatever
\* the order of the response, every bucket of the response once and with its
\* own chats, and the chats of each bucket newest update first.
C21_SidebarOrder ==
  sbstage = "rendered" =>
    /\ \A i, j \in 1..Len(sortedProjects) :
         i < j => sortedProjects[i].project.created_at
                    >= sortedProjects[j].project.created_at
    /\ Len(sortedProjects) = Len(projectEntries)
    /\ \A e \in Range(projectEntries) : e \in Range(sortedProjects)
    /\ \A i \in 1..Len(sortedProjects) : Descending(sortedProjects[i].chats)

\* C21 witness: the response gave an older project before a newer one, the
\* newer one with two chats updated at different times, and the sidebar has
\* been rendered
C21_OlderProjectGivenFirst ==
  /\ sbstage = "rendered"
  /\ Len(projectEntries) = 2
  /\ projectEntries[1].project.created_at < projectEntries[2].project.created_at
  /\ Len(projectEntries[2].chats) = 2
  /\ projectEntries[2].chats[1].updated_at > projectEntries[2].chats[2].updated_at

\* C22: when the reload of a mutation intent completes and leaves no backend
\* request outstanding, the registry view is the backend's current session
\* state, whatever the order in which the listChats responses have arrived.
C22_EventuallyConsistent ==
  [][\A f \in InFlight :
       (f.kind # "mount" /\ LoadChatsCompletes(f) /\ flows' = EmptyBag)
         => organizedChats' = Organize(bChats, bProjects)]_vars

\* the positions of the user messages of a transcript
UserMessages(transcript) ==
  {i \in 1..Len(transcript) : transcript[i].type = "user"}

\* C23: while the session stays selected no optimistic user message is lost:
\* once the history response and the generate responses have arrived, the
\* transcript holds the user message of every send, each immediately before
\* its answer or apology.
C23_UserMessageKept ==
  calls = EmptyBag =>
    /\ Cardinality(UserMessages(messages)) = sent
    /\ \A i \in UserMessages(messages) :
         i < Len(messages) /\ messages[i + 1].type = "ai"

\* the number of generate calls in flight
Generating ==
  BagCardinality([f \in {g \in Calling : g.kind = "generate"} |-> calls[f]])

\* C24: every send settles: when the generate call resolves or rejects,
\* thinking returns to false, which enables the query input and the send
\* control again; and generate is called once per send: a step issues a
\* generate call only as a send, one call, and the continuation of a failed
\* call issues none.
C24_SendSettles ==
  /\ thinking ~> (~thinking /\ InputEnabled)
  /\ [][/\ Generating' > Generating => (sent' = sent + 1 /\ Generating' = Generating + 1)
        /\ sent' = sent + 1 => Generating' = Generating + 1
        /\ \A f \in Calling : GenerateSettles(f) => Generating' = Generating - 1]_vars

\* C24 witness: a send has failed and has settled: the apology ends the
\* transcript, thinking is over and no call is in flight
C24_SettledAfterFailure ==
  /\ sent >= 1 /\ ~thinking /\ calls = EmptyBag
  /\ messages # <<>> /\ messages[Len(messages)].content = Apology

\* the step is a continuation of flow f, which ends or moves on (it is not
\* the issue of another intent, which only touches the bookkeeping of f)
Continues(f) ==
  issued' = issued /\ CopiesIn(f, flows') < CopiesIn(f, flows)

\* C25: the continuation of a rejected mutation call ends the handler: no
\* listChats is requested, and the registry view, the selection and the
\* loading flag are left as they are (for an intent issued alone on an
\* up-to-date view, the view still is the backend's state); the continuation
\* of a rejected listChats keeps the view and ends loading.
C25_FailureLeavesView ==
  [][\A f \in InFlight :
       /\ (f.pc = "reply" /\ ~f.ok /\ Continues(f)) =>
            /\ flows' = Drop(f)
            /\ organizedChats' = organizedChats
            /\ selectedChat' = selectedChat
            /\ loading' = loading
            /\ f.alone => organizedChats' = Organize(bChats', bProjects')
       /\ (f.pc = "listReply" /\ ~f.ok /\ Continues(f)) =>
            /\ flows' = Drop(f)
            /\ organizedChats' = organizedChats
            /\ selectedChat' = selectedChat
            /\ loading' = FALSE]_vars

\* C25 witness: with a session selected and listed in the view, a mutation
\* call has been rejected and its handler is about to continue
C25_MutationRejected ==
  /\ selectedChat # Null /\ selectedChat \in Listed(organizedChats)
  /\ \E f \in InFlight : f.kind # "mount" /\ f.pc = "reply" /\ ~f.ok

\* C26: the selection changes only in an explicit select and in the
\* continuation of a successful createChat or deleteChat; the continuation
\* of createChat sets it to the new session id in the step that goes on to
\* the registry reload; the continuations of the other intents and of every
\* registry reload leave it as it is.
C26_SelectionFrame ==
  [][/\ selectedChat' # selectedChat =>
          \/ flows' = flows /\ selectedChat' \in Listed(organizedChats)
          \/ \E f \in InFlight :
               /\ f.kind \in {"newChat", "deleteChat"}
               /\ f.pc = "reply" /\ f.ok /\ Continues(f)
     /\ \A f \in InFlight :
          /\ (f.kind = "newChat" /\ f.pc = "reply" /\ f.ok /\ Continues(f)) =>
               /\ selectedChat' = f.session_id
               /\ flows' = Replace(f, [f EXCEPT !.pc = "list"])
          /\ (f.kind \notin {"newChat", "deleteChat"} /\ Continues(f)) =>
               selectedChat' = selectedChat
          /\ (f.pc = "listReply" /\ Continues(f)) => selectedChat' = selectedChat]_vars

\* C26 witness: with a session selected, a moveToProject call for it has
\* succeeded and its handler is about to continue
C26_MoveSucceeded ==
  /\ selectedChat # Null
  /\ \E f \in InFlight :
       f.kind = "moveToProject" /\ f.chatId = selectedChat /\ f.pc = "reply" /\ f.ok

\* C27: the ids of the messages of the transcript are pairwise distinct,
\* whatever the clock does as long as it never goes back, and the lookup by
\* id of a click finds the message that was clicked.
C27_IdsDistinct ==
  /\ \A i, j \in 1..Len(msgIds) : i # j => msgIds[i] # msgIds[j]
  /\ (found # <<>> /\ found[1] <= Len(msgIds)) => FindById(msgIds, msgIds[found[1]]) = found[1]

\* C28: every citation button of a rendered AI message stands where the raw
\* text has a marker [n], and carries that number: raw text that is not a
\* marker, also text that reads like one of the linker's placeholders, is
\* never turned into a button, with or without a citation table.
C28_AnchorsFromMarkersOnly ==
  stage = "rendered" =>
    \A p \in 1..Len(rendered) :
      IsButton(rendered[p]) =>
        /\ IsMarker(message.content[p])
        /\ DataCitation(rendered[p]) = MarkerNum(message.content[p])

\* the step is the continuation of loadChatHistory for the invocation f
LoadSettles(f) == BagIn(f, hLoads) /\ hLoads' = hLoads (-) SetToBag({f})

\* C29: when the history load of the selected session S completes
\* successfully, the chat name of the header is the name S's history gives:
\* its first user message cut to 50 characters ("..." appended when
\* longer), or the default name when S has no user message.
C29_NameFromSelected ==
  [][\A f \in BagToSet(hLoads) :
       (LoadSettles(f) /\ f.ok /\ f.session = selectedChat)
         => LET loaded == messages'
                users == {i \in 1..Len(loaded) : loaded[i].type = "user"}
                first == loaded[CHOOSE i \in users : \A j \in users : i <= j].content
            IN  chatName' = IF users = {} THEN HeaderDefault
                            ELSE IF Len(first) > NameCut
                                 THEN SubSeq(first, 1, NameCut) \o Ellipsis
                                 ELSE first]_vars

\* C30: a call of handleSend with an empty or blank query, or with no session
\* selected, appends no message, issues no generate call, and leaves the
\* query text and the thinking flag as they are.
C30_IgnoredSendIsNoOp ==
  [][(pressed' # pressed /\ (Trim(query) = <<>> \/ selectedChat = Null))
       => UNCHANGED <<messages, calls, query, thinking>>]_vars

\* handleSend has been called with a question in the query input and no
\* session selected, and nothing has been sent
C30_NoSessionSendIgnored ==
  /\ pressed = <<<<"q">>, Null>>
  /\ selectedChat = Null
  /\ query = <<"q">>
  /\ sent = 0
  /\ calls = EmptyBag

====
